---- MODULE Spec2Model ----
(***************************************************************************)
(* kamikaze_di: a dependency-injection container.                          *)
(*                                                                         *)
(* A ContainerBuilder collects one resolver per type key (a shared value,  *)
(* a factory or a one-shot builder) and is frozen by build() into a        *)
(* Container.  The container resolves a key by dispatching on the kind of  *)
(* its resolver; constructors receive the container and resolve their own  *)
(* dependencies through it, so resolution is recursive.  The model keeps   *)
(* the call chain as an explicit stack of frames, one per active call of   *)
(* inject, resolve_as_any, a registered closure or Inject::resolve, and    *)
(* keeps the RefCell borrow flags that the code holds across those calls.  *)
(***************************************************************************)
EXTENDS Integers, Sequences, FiniteSets, TLC

(* ------------------------------------------------------------------ *)
(* The universe of types and constructors                              *)
(* ------------------------------------------------------------------ *)

\* Type keys (TypeId::of::<T>()).  "i32" is a plain Clone type; "X" and "Y"
\* also implement Inject (a self-describing constructor).
Keys == {"i32", "X", "Y"}

InjectTypes == {"X", "Y"}

\* Keys of shared-handle types: Rc<Z>, where Z implements InjectAsRc and
\* not Clone (the Z of the derive tests).
RcTypes == {"Rc<Z>"}

AllKeys == Keys \cup RcTypes

\* Items handed to register().
Values == {42, 43}

\* number of fields a self-describing constructor injects
MaxFields == 1

\* number of top-level resolve()/inject() calls made on the container
MaxResolves == 3

\* depth of the call chain at which an unbounded recursion is cut off
MaxDepth == 10

\* number of fields the constructor of Z injects
MaxRcFields == 2

\* the base the documented factory counts down from
FactoryStart == 43

\* What a registered closure requests from the container: nothing, or one
\* dependency (the `base` of the documented factories and builders).  The
\* closures registered for Y request nothing, or Y itself.
ClosureDeps(k) ==
    IF k = "Y" THEN {<<>>, <<"Y">>} ELSE {<<>>} \cup {<<d>> : d \in Keys}

\* The fields Inject::resolve injects, in declaration order.  X is the X of
\* the tests of injector.rs, whose resolve is Ok(X { inner: 42 }); Y is a
\* struct of up to MaxFields fields.
FieldLists(k) ==
    IF k = "Y" THEN UNION {[1..n -> Keys] : n \in 0..MaxFields} ELSE {<<>>}

\* an item of some type: who produced it and a distinguishing number
Item(by, n) == [by |-> by, n |-> n]

\* the name of the struct behind a key: Rc<Z> is made by Z's constructor
StructName(k) == IF k = "Rc<Z>" THEN "Z" ELSE k

\* the type of an item made for key k: what the constructors of k make, or
\* the Rc that Rc::new has put around it
ItemType(k, item) ==
    IF item.by = "rc" THEN "Rc<" \o StructName(k) \o ">" ELSE StructName(k)

NoItem == Item("none", 0)

(* ------------------------------------------------------------------ *)
(* Resolver entries                                                    *)
(* ------------------------------------------------------------------ *)

\* Resolver::Shared(Box<Any>)
Shared(item) == [kind |-> "Shared", val |-> item, calls |-> 0, auto |-> FALSE]

\* Resolver::Factory(RefCell<Box<Any>>): calls is the closure's own counter
\* (the captured `i` of the documented factory); auto marks auto_factory::<T>
Factory(auto) == [kind |-> "Factory", val |-> NoItem, calls |-> 0, auto |-> auto]

\* Resolver::Builder(Box<Any>)
Builder == [kind |-> "Builder", val |-> NoItem, calls |-> 0, auto |-> FALSE]

\* Result values: Ok(item), Err(message), and a panic that is unwinding
NoResult == [tag |-> "None", val |-> NoItem, msg |-> "", fn |-> "", key |-> ""]

Ok(item) == [tag |-> "Ok", val |-> item, msg |-> "", fn |-> "", key |-> ""]

Err(msg) == [tag |-> "Err", val |-> NoItem, msg |-> msg, fn |-> "", key |-> ""]

Panic(msg) == [tag |-> "Panic", val |-> NoItem, msg |-> msg, fn |-> "", key |-> ""]

\* the same result, labelled with the call that produced it
From(r, fn, k) == [r EXCEPT !.fn = fn, !.key = k]

VARIABLES
    phase,        \* "building" (ContainerBuilder) or "frozen" (Container)
    resolvers,    \* HashMap<TypeId, Resolver>: a function on the present keys
    deps,         \* per key, what the closure registered for it requests
    fields,       \* per Inject type, the fields its resolve injects
    tracked,      \* CycleStopper.tracked
    stack,        \* the active call chain, innermost frame last
    ret,          \* result travelling from a finished call to its caller
    borrows,      \* outstanding Ref borrows of Container.resolvers
    cells,        \* keys whose Factory cell is mutably borrowed
    outcome,      \* result of the last call the application has got back
    firstReg,     \* history: per key, the first resolver handed to the builder
    invoked,      \* history: per key, invocations of its registered closure
    constructed,  \* history: per key, invocations of Inject::resolve
    nResolves,    \* history: top-level calls made on the container
    strong,       \* per Rc key, Rc::strong_count of the stored instance
    held          \* per Rc key, the handles the application holds

vars == <<phase, resolvers, deps, fields, tracked, stack, ret, borrows, cells,
          outcome, firstReg, invoked, constructed, nResolves, strong, held>>

(* ------------------------------------------------------------------ *)
(* ContainerBuilder                                                    *)
(* ------------------------------------------------------------------ *)

\* ContainerBuilder::has / Container::has
has(res, k) == k \in DOMAIN res

\* HashMap::insert
MapInsert(res, k, e) == [x \in DOMAIN res \cup {k} |-> IF x = k THEN e ELSE res[x]]

\* HashMap::remove
MapRemove(res, k) == [x \in DOMAIN res \ {k} |-> res[x]]

\* ContainerBuilder::insert without the has() check: HashMap::insert replaces
BuilderInsertOverwrites(res, k, e) == MapInsert(res, k, e)

\* ContainerBuilder::insert: the registry after the call
BuilderInsert(res, k, e) == IF has(res, k) THEN res ELSE MapInsert(res, k, e)

\* ContainerBuilder::insert: the Result of the call
BuilderInsertResult(res, k) ==
    IF has(res, k) THEN Err("Container already has") ELSE Ok(NoItem)

\* a registration call on a builder that build() did not consume
RegistrationAnytime(fn, k, e) ==
    /\ resolvers' = BuilderInsert(resolvers, k, e)
    /\ outcome' = From(BuilderInsertResult(resolvers, k), fn, k)
    /\ firstReg' = IF k \in DOMAIN firstReg THEN firstReg ELSE MapInsert(firstReg, k, e)
    /\ UNCHANGED <<phase, deps, fields, tracked, stack, ret, borrows, cells,
                   invoked, constructed, nResolves,
                   strong, held>>

\* a registration call: insert, and remember what the application was told
Registration(fn, k, e) ==
    /\ phase = "building"
    /\ resolvers' = BuilderInsert(resolvers, k, e)
    /\ outcome' = From(BuilderInsertResult(resolvers, k), fn, k)
    /\ firstReg' = IF k \in DOMAIN firstReg THEN firstReg ELSE MapInsert(firstReg, k, e)
    /\ UNCHANGED <<phase, deps, fields, tracked, stack, ret, borrows, cells,
                   invoked, constructed, nResolves,
                   strong, held>>

register(k, v) == Registration("register", k, Shared(Item("register", v)))

register_factory(k) == Registration("register_factory", k, Factory(FALSE))

register_automatic_factory(k) ==
    /\ k \in InjectTypes
    /\ Registration("register_automatic_factory", k, Factory(TRUE))

register_builder(k) == Registration("register_builder", k, Builder)

\* the closure registered for k can run: k is registered with a closure
HasClosure(res, k) ==
    has(res, k) /\ res[k].kind \in {"Factory", "Builder"} /\ ~res[k].auto

\* Inject::resolve of k can run: the type implements Inject and the key has
\* no entry, or loses it (a Builder), or its entry is auto_factory
CanSelfConstruct(res, k) ==
    /\ k \in InjectTypes
    /\ has(res, k) => res[k].kind = "Builder" \/ res[k].auto

\* ContainerBuilder::build.  The registered closures and the Inject
\* implementations are code the builder never runs: what they request from
\* the container is fixed here, when the container starts to exist.
build ==
    /\ phase = "building"
    /\ phase' = "frozen"
    /\ tracked' = {}
    /\ outcome' = NoResult
    /\ deps' \in {d \in [Keys -> UNION {ClosureDeps(k) : k \in Keys}] :
                    \A k \in Keys :
                        /\ d[k] \in ClosureDeps(k)
                        /\ ~HasClosure(resolvers, k) => d[k] = <<>>}
    /\ fields' \in {f \in [Keys -> UNION {FieldLists(k) : k \in Keys}] :
                    \A k \in Keys :
                        /\ f[k] \in FieldLists(k)
                        /\ ~CanSelfConstruct(resolvers, k) => f[k] = <<>>}
    /\ UNCHANGED <<resolvers, stack, ret, borrows, cells, firstReg,
                   invoked, constructed, nResolves, strong, held>>

(* ------------------------------------------------------------------ *)
(* The call chain                                                      *)
(* ------------------------------------------------------------------ *)

\* a frame of the call chain: the function, its type parameter, where it
\* stands, and how many dependencies it has requested so far
Frame(fn, k, pc) == [fn |-> fn, key |-> k, pc |-> pc, n |-> 0]

Top == stack[Len(stack)]

Below == SubSeq(stack, 1, Len(stack) - 1)

\* the top frame is executing
Running(fn, pc) ==
    /\ phase = "frozen"
    /\ stack # <<>>
    /\ ret.tag = "None"
    /\ Top.fn = fn
    /\ Top.pc = pc

\* the call made by the top frame has returned a Result
Resumed(fn, pc) ==
    /\ phase = "frozen"
    /\ stack # <<>>
    /\ ret.tag \in {"Ok", "Err"}
    /\ Top.fn = fn
    /\ Top.pc = pc

\* the chain with its top frame waiting at pc, one more dependency requested
Waiting(pc) ==
    [stack EXCEPT ![Len(stack)].pc = pc, ![Len(stack)].n = @ + 1]

\* a Result reaches the application when the chain is empty, and the caller
\* on top of the chain otherwise
Deliver(chain, r) ==
    IF chain = <<>>
      THEN ret' = NoResult /\ outcome' = r
      ELSE ret' = r /\ UNCHANGED outcome

\* the top frame goes on at pc
Goto(pc) ==
    /\ stack' = [stack EXCEPT ![Len(stack)].pc = pc]
    /\ ret' = NoResult
    /\ UNCHANGED outcome

\* the top frame returns r
Return(r) ==
    /\ stack' = Below
    /\ Deliver(Below, From(r, Top.fn, Top.key))

\* the top frame panics: unwinding starts in this frame
Raise(msg) ==
    /\ ret' = From(Panic(msg), Top.fn, Top.key)
    /\ UNCHANGED <<stack, outcome>>

(* ------------------------------------------------------------------ *)
(* CycleStopper                                                        *)
(* ------------------------------------------------------------------ *)

\* a CycleStopper that panics whenever a resolution is nested in another
TrackPanicsNested(trk, k) == trk # {}

\* CycleStopper::track: does it panic
TrackPanics(trk, k) == k \in trk

\* CycleStopper::track: the tracked set when it does not
track(trk, k) == trk \cup {k}

\* CycleStopper::untrack that removes nothing
untrack_nothing(trk, k) == trk

\* CycleStopper::untrack, called by Drop for CycleGuard
untrack(trk, k) == trk \ {k}

(* ------------------------------------------------------------------ *)
(* Container                                                           *)
(* ------------------------------------------------------------------ *)

\* RefCell::borrow_mut on Container.resolvers panics while a Ref is out
BorrowMutPanics(b) == b > 0

\* Container::get_resolver_type unwrapping a missing entry as a Shared one
get_resolver_type_or_shared(res, k) ==
    IF has(res, k) THEN res[k].kind ELSE "Shared"

\* Container::get_resolver_type
get_resolver_type(res, k) == IF has(res, k) THEN res[k].kind ELSE "None"

\* Container::insert: the Result when it returns
insert_result(res, k) ==
    IF has(res, k) THEN Err("Container already has") ELSE Ok(NoItem)

\* Container::insert that stores nothing
insert_nothing(res, k, e) == res

\* Container::insert: the registry after the call
insert(res, k, e) == IF has(res, k) THEN res ELSE MapInsert(res, k, e)

\* Container::get_shared handing out a fresh item instead of the stored one
get_shared_fresh(res, k) == Ok(NoItem)

\* Container::get_shared: the Result of the call
get_shared(res, k) ==
    IF ~has(res, k)
      THEN Panic("called Option::unwrap() on a None value")
      ELSE IF res[k].kind = "Shared"
        THEN IF ItemType(k, res[k].val) = k
               THEN Ok(res[k].val)
               ELSE Panic("called Option::unwrap() on a None value")
        ELSE Panic("not registered as shared dependency")

\* a factory whose counter does not persist: every call starts from zero
FactoryEnterAnew(e) == [e EXCEPT !.calls = 1]

\* the documented factory: `i += 1` on entry
FactoryEnter(e) == [e EXCEPT !.calls = @ + 1]

\* the documented factory: `base - i`
FactoryItem(e) == Item("factory", FactoryStart - e.calls)

\* room on the call chain for more frames
Fits(chain, n) == Len(chain) + n <= MaxDepth

\* Container::get::<T>() called from the frames of chain: resolve_as_any
\* starts with `let _guard = self.cycle_stopper.track(type_id)`, which
\* panics in the caller's hands or leaves the key tracked
get(chain, k) ==
    IF TrackPanics(tracked, k)
      THEN /\ stack' = chain
           /\ Deliver(chain, From(Panic("Circular dependency"), "get", k))
           /\ UNCHANGED tracked
      ELSE /\ Fits(chain, 1)
           /\ stack' = Append(chain, Frame("get", k, "dispatch"))
           /\ tracked' = track(tracked, k)
           /\ ret' = NoResult
           /\ outcome' = NoResult

\* Injector::inject without the has() check: it always constructs
AutoResolvesAlways(res, k) == k \in InjectTypes \cup RcTypes

\* does Injector::inject::<T>() construct T itself: T is Inject, or T is
\* Rc<U> with U: InjectAsRc, and the key has no entry
AutoResolves(res, k) == k \in InjectTypes \cup RcTypes /\ ~has(res, k)

\* Injector::inject::<T>() called from the frames of chain.  For T: Inject
\* whose key has no entry it calls T::resolve(self); otherwise (has, or the
\* default implementation) it is self.get()
Inject(chain, k) ==
    IF AutoResolves(resolvers, k)
      THEN /\ Fits(chain, 2)
           /\ stack' = chain \o <<Frame("inject", k, "construct"),
                                  Frame("resolve", k, "run")>>
           /\ constructed' = [constructed EXCEPT ![k] = @ + 1]
           /\ ret' = NoResult
           /\ outcome' = NoResult
           /\ UNCHANGED tracked
      ELSE /\ get(chain, k)
           /\ UNCHANGED constructed

\* the application calls Resolver::resolve::<T>(), which is self.get()
resolve(k) ==
    /\ phase = "frozen"
    /\ stack = <<>>
    /\ nResolves < MaxResolves
    /\ nResolves' = nResolves + 1
    /\ get(<<>>, k)
    /\ UNCHANGED <<phase, resolvers, deps, fields, borrows, cells,
                   firstReg, invoked, constructed,
                   strong, held>>

\* the application calls Injector::inject::<T>()
inject(k) ==
    /\ phase = "frozen"
    /\ stack = <<>>
    /\ nResolves < MaxResolves
    /\ nResolves' = nResolves + 1
    /\ Inject(<<>>, k)
    /\ UNCHANGED <<phase, resolvers, deps, fields, borrows, cells,
                   firstReg, invoked,
                   strong, held>>

\* Rc::new(item): a handle to a new instance, strong count 1
RcNew(item) == Item("rc", item.n)

\* the item boxed as it is, without Rc::new, whatever the key
BoxedBare(k, item) == item

\* every item wrapped in a new Rc, whatever the key
BoxedInRc(k, item) == RcNew(item)

\* what inject boxes into Resolver::Shared: the item, or Rc::new(item)
Boxed(k, item) == IF k \in RcTypes THEN RcNew(item) ELSE item

\* the strong counts after Rc::new for key k
RcCreated(st, k) == IF k \in RcTypes THEN [st EXCEPT ![k] = 1] ELSE st

\* the strong counts after `borrowed_item.clone()` in get_shared gave r
RcCloned(st, k, r) ==
    IF k \in RcTypes /\ r.tag = "Ok" THEN [st EXCEPT ![k] = @ + 1] ELSE st

\* the strong counts after a handle of key k was dropped
RcDropped(st, k) == IF k \in RcTypes THEN [st EXCEPT ![k] = @ - 1] ELSE st

\* the handles the application holds after r was returned to chain
Kept(h, chain, k, r) ==
    IF chain = <<>> /\ k \in RcTypes /\ r.tag = "Ok"
      THEN [h EXCEPT ![k] = @ + 1]
      ELSE h

\* Injector::inject that stores an entry for the key although T::resolve
\* has failed
inject_insert_failed ==
    /\ Resumed("inject", "construct")
    /\ resolvers' = IF ret.tag = "Err"
                      THEN MapInsert(resolvers, Top.key, Shared(NoItem))
                      ELSE insert(resolvers, Top.key,
                                  Shared(Boxed(Top.key, ret.val)))
    /\ Return(IF ret.tag = "Err" THEN Err(ret.msg) ELSE Ok(ret.val))
    /\ UNCHANGED <<phase, deps, fields, tracked, borrows, cells, firstReg,
                   invoked, constructed, nResolves, strong, held>>

\* Injector::inject for T: Inject or Rc<T>, T: InjectAsRc, after
\* T::resolve(self)? : store the item as Shared, then self.get()
inject_insert ==
    /\ Resumed("inject", "construct")
    /\ IF ret.tag = "Err"
         THEN /\ Return(Err(ret.msg))
              /\ UNCHANGED <<resolvers, tracked, strong>>
         ELSE IF has(resolvers, Top.key)
           THEN /\ Return(insert_result(resolvers, Top.key))
                /\ UNCHANGED <<resolvers, tracked, strong>>
           ELSE IF BorrowMutPanics(borrows)
             THEN /\ Raise("already borrowed")
                  /\ UNCHANGED <<resolvers, tracked, strong>>
             ELSE /\ resolvers' = insert(resolvers, Top.key,
                                         Shared(Boxed(Top.key, ret.val)))
                  /\ strong' = RcCreated(strong, Top.key)
                  /\ get(Below, Top.key)
    /\ UNCHANGED <<phase, deps, fields, borrows, cells, firstReg, invoked,
                   constructed, nResolves, held>>

\* resolve_as_any, Some(ResolverType::Factory): call_factory borrows the
\* registry and the factory's cell, and calls the factory with both held
call_factory ==
    /\ Running("get", "dispatch")
    /\ get_resolver_type(resolvers, Top.key) = "Factory"
    /\ IF Top.key \in cells
         THEN /\ Raise("already borrowed")
              /\ UNCHANGED <<resolvers, borrows, cells, invoked, constructed>>
         ELSE /\ borrows' = borrows + 1
              /\ cells' = cells \cup {Top.key}
              /\ ret' = NoResult
              /\ UNCHANGED outcome
              /\ IF resolvers[Top.key].auto
                   THEN /\ Fits(stack, 2)
                        /\ stack' = [stack EXCEPT ![Len(stack)].pc = "factory"]
                                    \o <<Frame("auto_factory", Top.key, "unwrap"),
                                         Frame("resolve", Top.key, "run")>>
                        /\ constructed' = [constructed EXCEPT ![Top.key] = @ + 1]
                        /\ UNCHANGED <<resolvers, invoked>>
                   ELSE /\ Fits(stack, 1)
                        /\ stack' = [stack EXCEPT ![Len(stack)].pc = "factory"]
                                    \o <<Frame("closure", Top.key, "run")>>
                        /\ resolvers' = [resolvers EXCEPT
                                           ![Top.key] = FactoryEnter(@)]
                        /\ invoked' = [invoked EXCEPT ![Top.key] = @ + 1]
                        /\ UNCHANGED constructed
    /\ UNCHANGED <<phase, deps, fields, tracked, firstReg, nResolves,
                   strong, held>>

\* call_factory: the factory has returned; `return Ok(item)` drops the
\* borrows, and resolve_as_any returns, dropping the guard
call_factory_return ==
    /\ Resumed("get", "factory")
    /\ borrows' = borrows - 1
    /\ cells' = cells \ {Top.key}
    /\ tracked' = untrack(tracked, Top.key)
    /\ Return(Ok(ret.val))
    /\ UNCHANGED <<phase, resolvers, deps, fields, firstReg, invoked,
                   constructed, nResolves,
                   strong, held>>

\* resolve_as_any, Some(ResolverType::Builder): consume_builder takes the
\* entry out of the registry (borrow_mut) and calls the builder
consume_builder ==
    /\ Running("get", "dispatch")
    /\ get_resolver_type(resolvers, Top.key) = "Builder"
    /\ IF BorrowMutPanics(borrows)
         THEN /\ Raise("already borrowed")
              /\ UNCHANGED <<resolvers, invoked>>
         ELSE /\ Fits(stack, 1)
              /\ resolvers' = MapRemove(resolvers, Top.key)
              /\ invoked' = [invoked EXCEPT ![Top.key] = @ + 1]
              /\ stack' = [stack EXCEPT ![Len(stack)].pc = "builder"]
                          \o <<Frame("closure", Top.key, "run")>>
              /\ ret' = NoResult
              /\ UNCHANGED outcome
    /\ UNCHANGED <<phase, deps, fields, tracked, borrows, cells, firstReg,
                   constructed, nResolves,
                   strong, held>>

\* consume_builder: the builder has returned; insert the item as Shared,
\* and resolve_as_any goes on with get_shared
consume_builder_return ==
    /\ Resumed("get", "builder")
    /\ IF has(resolvers, Top.key)
         THEN /\ Return(insert_result(resolvers, Top.key))
              /\ tracked' = untrack(tracked, Top.key)
              /\ UNCHANGED resolvers
         ELSE IF BorrowMutPanics(borrows)
           THEN /\ Raise("already borrowed")
                /\ UNCHANGED <<resolvers, tracked>>
           ELSE /\ resolvers' = insert(resolvers, Top.key, Shared(ret.val))
                /\ tracked' = untrack(tracked, Top.key)
                /\ Return(get_shared(resolvers', Top.key))
    /\ UNCHANGED <<phase, deps, fields, borrows, cells, firstReg, invoked,
                   constructed, nResolves, strong, held>>

\* resolve_as_any, Some(ResolverType::Shared)
resolve_as_any_shared ==
    /\ Running("get", "dispatch")
    /\ get_resolver_type(resolvers, Top.key) = "Shared"
    /\ tracked' = untrack(tracked, Top.key)
    /\ Return(get_shared(resolvers, Top.key))
    /\ strong' = RcCloned(strong, Top.key, get_shared(resolvers, Top.key))
    /\ held' = Kept(held, Below, Top.key, get_shared(resolvers, Top.key))
    /\ UNCHANGED <<phase, resolvers, deps, fields, borrows, cells, firstReg,
                   invoked, constructed, nResolves>>

\* resolve_as_any, None
resolve_as_any_none ==
    /\ Running("get", "dispatch")
    /\ get_resolver_type(resolvers, Top.key) = "None"
    /\ tracked' = untrack(tracked, Top.key)
    /\ Return(Err("Type not registered"))
    /\ UNCHANGED <<phase, resolvers, deps, fields, borrows, cells, firstReg,
                   invoked, constructed, nResolves,
                   strong, held>>

\* a registered closure asks the container for its next dependency:
\* `container.inject()`
closure_request ==
    /\ Running("closure", "run")
    /\ Top.n < Len(deps[Top.key])
    /\ Inject(Waiting("unwrap"), deps[Top.key][Top.n + 1])
    /\ UNCHANGED <<phase, resolvers, deps, fields, borrows, cells, firstReg,
                   invoked, nResolves,
                   strong, held>>

\* a registered closure: `.unwrap()` of the dependency's Result
closure_unwrap ==
    /\ Resumed("closure", "unwrap")
    /\ IF ret.tag = "Ok"
         THEN Goto("run")
         ELSE Raise("called Result::unwrap() on an Err value")
    /\ UNCHANGED <<phase, resolvers, deps, fields, tracked, borrows, cells,
                   firstReg, invoked, constructed, nResolves,
                   strong, held>>

\* the strong counts after the dependencies a closure got are dropped
RECURSIVE RcDroppedAll(_, _)
RcDroppedAll(st, ks) ==
    IF ks = <<>> THEN st ELSE RcDroppedAll(RcDropped(st, Head(ks)), Tail(ks))

\* a registered closure returns its item: the documented factory returns
\* `base - i`, a builder the one item it builds; its locals are dropped
closure_return ==
    /\ Running("closure", "run")
    /\ Top.n = Len(deps[Top.key])
    /\ Return(Ok(IF stack[Len(stack) - 1].pc = "factory"
                   THEN FactoryItem(resolvers[Top.key])
                   ELSE Item("builder", invoked[Top.key])))
    /\ strong' = RcDroppedAll(strong, deps[Top.key])
    /\ UNCHANGED <<phase, resolvers, deps, fields, tracked, borrows, cells,
                   firstReg, invoked, constructed, nResolves, held>>

\* auto_factory: `T::resolve(container).unwrap()`
auto_factory ==
    /\ Resumed("auto_factory", "unwrap")
    /\ IF ret.tag = "Ok"
         THEN Return(Ok(ret.val))
         ELSE Raise("called Result::unwrap() on an Err value")
    /\ UNCHANGED <<phase, resolvers, deps, fields, tracked, borrows, cells,
                   firstReg, invoked, constructed, nResolves,
                   strong, held>>

\* Inject::resolve: the next field, `container.inject()`
Inject_resolve_field ==
    /\ Running("resolve", "run")
    /\ Top.n < Len(fields[Top.key])
    /\ Inject(Waiting("try"), fields[Top.key][Top.n + 1])
    /\ UNCHANGED <<phase, resolvers, deps, fields, borrows, cells, firstReg,
                   invoked, nResolves,
                   strong, held>>

\* the derived constructor's map_err: the failure of field n of k, with
\* the struct and the field's type in front
FieldError(k, n, msg) ==
    "could not resolve " \o StructName(k) \o "::" \o fields[k][n]
        \o ": " \o msg

\* Inject::resolve without `?`: a field's failure is dropped
Inject_resolve_try_on ==
    /\ Resumed("resolve", "try")
    /\ Goto("run")
    /\ UNCHANGED <<phase, resolvers, deps, fields, tracked, borrows, cells,
                   firstReg, invoked, constructed, nResolves,
                   strong, held>>

\* Inject::resolve: `?` on the field's Result
Inject_resolve_try ==
    /\ Resumed("resolve", "try")
    /\ IF ret.tag = "Ok"
         THEN Goto("run")
         ELSE Return(Err(FieldError(Top.key, Top.n, ret.msg)))
    /\ UNCHANGED <<phase, resolvers, deps, fields, tracked, borrows, cells,
                   firstReg, invoked, constructed, nResolves,
                   strong, held>>

\* Inject::resolve: all fields are there, `Ok(Self { .. })`
Inject_resolve_return ==
    /\ Running("resolve", "run")
    /\ Top.n = Len(fields[Top.key])
    /\ Return(Ok(Item("resolve", constructed[Top.key])))
    /\ UNCHANGED <<phase, resolvers, deps, fields, tracked, borrows, cells,
                   firstReg, invoked, constructed, nResolves,
                   strong, held>>

\* a CycleGuard without Drop: no frame gives its key back
HoldsNoGuard(f) == FALSE

\* the frame owns a CycleGuard: resolve_as_any, from its first statement on
HoldsGuard(f) == f.fn = "get"

\* the frame owns the Ref and RefMut temporaries of call_factory
HoldsBorrow(f) == f.fn = "get" /\ f.pc = "factory"

\* a panic unwinds one frame: its locals are dropped, innermost first
unwind ==
    /\ phase = "frozen"
    /\ stack # <<>>
    /\ ret.tag = "Panic"
    /\ stack' = Below
    /\ Deliver(Below, ret)
    /\ tracked' = IF HoldsGuard(Top) THEN untrack(tracked, Top.key) ELSE tracked
    /\ borrows' = IF HoldsBorrow(Top) THEN borrows - 1 ELSE borrows
    /\ cells' = IF HoldsBorrow(Top) THEN cells \ {Top.key} ELSE cells
    /\ UNCHANGED <<phase, resolvers, deps, fields, firstReg, invoked,
                   constructed, nResolves,
                   strong, held>>

(* ------------------------------------------------------------------ *)
(* The program                                                         *)
(* ------------------------------------------------------------------ *)

EmptyMap == [x \in {} |-> NoItem]

\* ContainerBuilder::new()
Init ==
    /\ phase = "building"
    /\ resolvers = EmptyMap
    /\ deps = [k \in Keys |-> <<>>]
    /\ fields = [k \in Keys |-> <<>>]
    /\ tracked = {}
    /\ stack = <<>>
    /\ ret = NoResult
    /\ borrows = 0
    /\ cells = {}
    /\ outcome = NoResult
    /\ firstReg = EmptyMap
    /\ invoked = [k \in Keys |-> 0]
    /\ constructed = [k \in Keys |-> 0]
    /\ nResolves = 0
    /\ strong = [k \in RcTypes |-> 0]
    /\ held = [k \in RcTypes |-> 0]

Next ==
    \/ \E k \in Keys, v \in Values : register(k, v)
    \/ \E k \in Keys : register_factory(k)
    \/ \E k \in Keys : register_automatic_factory(k)
    \/ \E k \in Keys : register_builder(k)
    \/ build
    \/ \E k \in Keys : resolve(k)
    \/ \E k \in Keys : inject(k)
    \/ inject_insert
    \/ call_factory
    \/ call_factory_return
    \/ consume_builder
    \/ consume_builder_return
    \/ resolve_as_any_shared
    \/ resolve_as_any_none
    \/ closure_request
    \/ closure_unwrap
    \/ closure_return
    \/ auto_factory
    \/ Inject_resolve_field
    \/ Inject_resolve_try
    \/ Inject_resolve_return
    \/ unwind

Spec == Init /\ [][Next]_vars

(* ------------------------------------------------------------------ *)
(* The program with a shared-handle type                               *)
(* ------------------------------------------------------------------ *)

\* What the closure registered for k requests in the program with Rc<Z>:
\* the closure of X may inject the handle or request Y, the closures of i32
\* may request Y, and the closure of Y requests nothing.
RcClosureDeps(k) ==
    IF k = "X" THEN {<<>>, <<"Y">>} \cup {<<d>> : d \in RcTypes}
    ELSE IF k = "i32" THEN {<<>>, <<"Y">>}
    ELSE {<<>>}

\* The fields a derived resolve injects in the program with Rc<Z>: Z has up
\* to MaxRcFields fields of types i32 and X; X is the leaf of injector.rs.
RcFieldLists(k) ==
    IF k \in RcTypes
      THEN UNION {[1..n -> {"i32", "X"}] : n \in 0..MaxRcFields}
      ELSE {<<>>}

\* ContainerBuilder::build, for the program with Rc<Z>
build_rc ==
    /\ phase = "building"
    /\ phase' = "frozen"
    /\ tracked' = {}
    /\ outcome' = NoResult
    /\ deps' \in {d \in [AllKeys -> UNION {RcClosureDeps(k) : k \in AllKeys}] :
                    \A k \in AllKeys :
                        /\ d[k] \in RcClosureDeps(k)
                        /\ ~HasClosure(resolvers, k) => d[k] = <<>>}
    /\ fields' \in {f \in [AllKeys -> UNION {RcFieldLists(k) : k \in AllKeys}] :
                    \A k \in AllKeys : f[k] \in RcFieldLists(k)}
    /\ UNCHANGED <<resolvers, stack, ret, borrows, cells, firstReg,
                   invoked, constructed, nResolves, strong, held>>

\* the application drops a handle it holds
drop_handle(k) ==
    /\ phase = "frozen"
    /\ stack = <<>>
    /\ held[k] > 0
    /\ held' = [held EXCEPT ![k] = @ - 1]
    /\ strong' = RcDropped(strong, k)
    /\ UNCHANGED <<phase, resolvers, deps, fields, tracked, stack, ret,
                   borrows, cells, outcome, firstReg, invoked, constructed,
                   nResolves>>

\* ContainerBuilder::new(), for the program with Rc<Z>
InitRc ==
    /\ phase = "building"
    /\ resolvers = EmptyMap
    /\ deps = [k \in AllKeys |-> <<>>]
    /\ fields = [k \in AllKeys |-> <<>>]
    /\ tracked = {}
    /\ stack = <<>>
    /\ ret = NoResult
    /\ borrows = 0
    /\ cells = {}
    /\ outcome = NoResult
    /\ firstReg = EmptyMap
    /\ invoked = [k \in AllKeys |-> 0]
    /\ constructed = [k \in AllKeys |-> 0]
    /\ nResolves = 0
    /\ strong = [k \in RcTypes |-> 0]
    /\ held = [k \in RcTypes |-> 0]

NextRc ==
    \/ \E v \in Values : register("i32", v)
    \/ \E k \in Keys : register_factory(k)
    \/ register_builder("i32")
    \/ build_rc
    \/ \E k \in {"i32", "X"} : resolve(k)
    \/ \E k \in RcTypes : inject(k)
    \/ \E k \in RcTypes : drop_handle(k)
    \/ inject_insert
    \/ call_factory
    \/ call_factory_return
    \/ consume_builder
    \/ consume_builder_return
    \/ resolve_as_any_shared
    \/ resolve_as_any_none
    \/ closure_request
    \/ closure_unwrap
    \/ closure_return
    \/ Inject_resolve_field
    \/ Inject_resolve_try
    \/ Inject_resolve_return
    \/ unwind

SpecRc == InitRc /\ [][NextRc]_vars

(* ------------------------------------------------------------------ *)
(* The program that asks has()                                         *)
(* ------------------------------------------------------------------ *)

\* the bool has() returns, as an item
Answer(b) == Item("has", IF b THEN 1 ELSE 0)

\* ContainerBuilder::has::<T>(), called by the application
builder_has(k) ==
    /\ phase = "building"
    /\ outcome' = From(Ok(Answer(has(resolvers, k))), "has", k)
    /\ UNCHANGED <<phase, resolvers, deps, fields, tracked, stack, ret,
                   borrows, cells, firstReg, invoked, constructed,
                   nResolves, strong, held>>

\* a has() that enters cycle tracking as a resolution does
container_has_tracking(k) ==
    /\ phase = "frozen"
    /\ stack = <<>>
    /\ outcome' = From(Ok(Answer(has(resolvers, k))), "has", k)
    /\ tracked' = track(tracked, k)
    /\ UNCHANGED <<phase, resolvers, deps, fields, stack, ret,
                   borrows, cells, firstReg, invoked, constructed,
                   nResolves, strong, held>>

\* Resolver::has::<T>() on the container, called by the application
container_has(k) ==
    /\ phase = "frozen"
    /\ stack = <<>>
    /\ outcome' = From(Ok(Answer(has(resolvers, k))), "has", k)
    /\ UNCHANGED <<phase, resolvers, deps, fields, tracked, stack, ret,
                   borrows, cells, firstReg, invoked, constructed,
                   nResolves, strong, held>>

\* the keys the program that asks has() registers and resolves
HasKeys == {"i32", "X"}

NextHas ==
    \/ \E k \in HasKeys, v \in Values : register(k, v)
    \/ \E k \in HasKeys : register_factory(k)
    \/ \E k \in HasKeys : register_automatic_factory(k)
    \/ \E k \in HasKeys : register_builder(k)
    \/ \E k \in Keys : builder_has(k)
    \/ build
    \/ \E k \in Keys : container_has(k)
    \/ \E k \in HasKeys : resolve(k)
    \/ inject_insert
    \/ call_factory
    \/ call_factory_return
    \/ consume_builder
    \/ consume_builder_return
    \/ resolve_as_any_shared
    \/ resolve_as_any_none
    \/ closure_request
    \/ closure_unwrap
    \/ closure_return
    \/ auto_factory
    \/ Inject_resolve_field
    \/ Inject_resolve_try
    \/ Inject_resolve_return
    \/ unwind

SpecHas == Init /\ [][NextHas]_vars

(* ------------------------------------------------------------------ *)
(* Properties                                                          *)
(* ------------------------------------------------------------------ *)

\* the results of resolutions of key k that are in the hands of a caller:
\* the one travelling up the chain, or the one the application got back
Delivered(k) ==
    {r \in {ret, outcome} :
        r.tag # "None" /\ r.fn \in {"get", "inject"} /\ r.key = k}

\* keys whose first registration was of the given kind
Registered(kind) == {k \in DOMAIN firstReg : firstReg[k].kind = kind}

\* C1: a registration of a key the builder already has returns an error and
\* leaves the registry as it was, whatever the two registration operations
\* are; a registration of an absent key succeeds; so the registry the
\* builder hands to build is the registry of the first registrations alone.
C1_DuplicateRegistration ==
    [][/\ phase' = "building" =>
            /\ has(resolvers, outcome'.key) =>
                   outcome'.tag = "Err" /\ resolvers' = resolvers
            /\ ~has(resolvers, outcome'.key) => outcome'.tag = "Ok"
            /\ resolvers' = firstReg'
       /\ phase = "building" /\ phase' = "frozen" => resolvers' = firstReg
      ]_vars

\* C1 witness: a second registration, by another operation than the first,
\* has been refused and the first resolver is still there
C1_Witness ==
    /\ phase = "building"
    /\ outcome.tag = "Err"
    /\ outcome.fn = "register_factory"
    /\ resolvers[outcome.key].kind = "Shared"

\* C2: a key registered with register(v) keeps its entry Shared(v), and
\* every resolution of it returns Ok(v), whatever was resolved before.
C2_SharedResolvesToRegistered ==
    \A k \in Registered("Shared") :
        phase = "frozen" =>
            /\ has(resolvers, k)
            /\ resolvers[k] = firstReg[k]
            /\ \A r \in Delivered(k) : r.tag = "Ok" /\ r.val = firstReg[k].val

\* C2 witness: the second call of the application got the registered item
\* after closures of other keys and Inject::resolve have run
C2_Witness ==
    /\ phase = "frozen"
    /\ stack = <<>>
    /\ nResolves >= 2
    /\ outcome.tag = "Ok"
    /\ outcome.key \in Registered("Shared")
    /\ outcome.val = firstReg[outcome.key].val
    /\ \E j \in Keys : invoked[j] > 0
    /\ \E j \in Keys : constructed[j] > 0

\* C3 (as claimed): the builder of a key registered with register_builder
\* is not invoked before the first resolution of the key, runs at most
\* once, has run once whenever a resolution of the key has ended, and a
\* resolution that yields a value yields the builder's item, then stored
\* as the Shared entry of the key.
C3_BuilderInvokedOnce ==
    \A k \in Registered("Builder") :
        /\ phase = "building" => invoked[k] = 0
        /\ invoked[k] <= 1
        /\ \A r \in Delivered(k) :
               /\ invoked[k] = 1
               /\ r.tag = "Ok" =>
                      /\ r.val = Item("builder", 1)
                      /\ has(resolvers, k)
                      /\ resolvers[k] = Shared(r.val)

\* keys first registered with register_factory
FactoryKeys ==
    {k \in DOMAIN firstReg : firstReg[k].kind = "Factory" /\ ~firstReg[k].auto}

\* C4: for a key registered with register_factory, the factory is invoked
\* exactly when a resolution of the key dispatches, once per resolution;
\* the entry stays Factory and its counter is the number of invocations so
\* far; and a resolution that yields a value yields base minus the number
\* of invocations, 42 then 41 then 40 for the base 43.
C4_FactoryEachResolution ==
    [][\A k \in FactoryKeys :
          /\ invoked'[k] # invoked[k] =>
                 /\ invoked'[k] = invoked[k] + 1
                 /\ Running("get", "dispatch")
                 /\ Top.key = k
          /\ Running("get", "dispatch") /\ Top.key = k =>
                 invoked'[k] = invoked[k] + 1
          /\ has(resolvers', k)
          /\ resolvers'[k].kind = "Factory"
          /\ resolvers'[k].calls = invoked'[k]
          /\ \A r \in Delivered(k)' :
                 r.tag = "Ok" =>
                     r.val = Item("factory", FactoryStart - invoked'[k])
      ]_vars

\* C4 witness: the third resolution of a factory key has returned 40
C4_Witness ==
    /\ stack = <<>>
    /\ outcome.tag = "Ok"
    /\ outcome.key \in FactoryKeys
    /\ invoked[outcome.key] = 3
    /\ outcome.val = Item("factory", 40)

\* the result the last step handed to the caller of the frame it popped
Handed == IF stack = <<>> THEN outcome ELSE ret

\* keys first registered with a closure (register_factory, register_builder)
ClosureKeys ==
    {k \in DOMAIN firstReg :
        firstReg[k].kind \in {"Factory", "Builder"} /\ ~firstReg[k].auto}

\* the closure keys reached from k in at most n requests of closures
RECURSIVE ReachedIn(_, _)
ReachedIn(k, n) ==
    IF n = 0 THEN {}
    ELSE LET direct == {deps[k][i] : i \in 1..Len(deps[k])} \cap ClosureKeys
         IN direct \cup UNION {ReachedIn(j, n - 1) : j \in direct}

\* k lies on a dependency cycle of registered factories and builders
OnCycle(k) == k \in ClosureKeys /\ k \in ReachedIn(k, Cardinality(Keys))

\* C5 (as claimed): when the first top-level resolution asks for a key on
\* a cycle of registered factories and unbuilt builders, the call ends
\* with the CircularDependency failure.
C5_CycleEndsCircular ==
    [][/\ nResolves = 1
       /\ stack # <<>>
       /\ stack' = <<>>
       /\ OnCycle(stack[1].key)
       => /\ outcome'.tag = "Panic"
          /\ outcome'.msg = "Circular dependency"]_vars

\* the key the running constructor on top of the chain injects next
NextInject ==
    IF Running("closure", "run") /\ Top.n < Len(deps[Top.key])
      THEN {deps[Top.key][Top.n + 1]}
    ELSE IF Running("resolve", "run") /\ Top.n < Len(fields[Top.key])
      THEN {fields[Top.key][Top.n + 1]}
    ELSE {}

\* the types whose auto-resolution by inject is in progress
AutoResolving ==
    {stack[i].key : i \in {j \in 1..Len(stack) : stack[j].fn = "inject"}}

\* C6 (as claimed): when a self-describing constructor injects a type
\* whose auto-resolution is in progress on the chain, the request fails
\* with the CircularDependency failure.
C6_AutoCycleEndsCircular ==
    [][\A q \in NextInject :
          /\ Top.fn = "resolve"
          /\ q \in AutoResolving
          => /\ ret'.tag = "Panic"
             /\ ret'.msg = "Circular dependency"]_vars

\* the frames of resolve_as_any on the call chain
ActiveGets == {i \in 1..Len(stack) : stack[i].fn = "get"}

\* C7: the tracked set is exactly the set of keys whose resolve_as_any is
\* active on the call chain, no key has two active resolutions, and the
\* set is empty when no call is in progress.
C7_TrackedIsActiveChain ==
    /\ tracked = {stack[i].key : i \in ActiveGets}
    /\ \A i, j \in ActiveGets : stack[i].key = stack[j].key => i = j
    /\ stack = <<>> => tracked = {}

\* C7 witness: three resolutions nested in one another, all tracked
C7_Witness ==
    /\ Cardinality(ActiveGets) = 3
    /\ tracked = Keys

\* C8: whenever a resolve_as_any frame leaves the chain, by returning a
\* value, by returning an error or by unwinding, its key leaves the
\* tracked set with it; so the set is empty when a call has ended, and no
\* top-level call fails with CircularDependency at its own key.
C8_GuardReleasesOnEveryExit ==
    [][/\ Len(stack') < Len(stack) /\ Top.fn = "get" =>
              tracked' = tracked \ {Top.key}
       /\ stack' = <<>> => tracked' = {}
       /\ stack = <<>> /\ nResolves' # nResolves =>
              outcome'.msg # "Circular dependency"
      ]_vars

\* C8 witness: a second top-level call has been unwound from a
\* CircularDependency panic deep in the chain, and nothing is tracked
C8_Witness ==
    /\ stack = <<>>
    /\ nResolves = 2
    /\ outcome.tag = "Panic"
    /\ outcome.msg = "Circular dependency"
    /\ invoked[outcome.key] >= 1
    /\ tracked = {}

\* the top frame is a resolve_as_any about to dispatch on a key that has
\* no entry and is not auto-resolvable
DispatchesAbsent ==
    /\ Running("get", "dispatch")
    /\ ~has(resolvers, Top.key)
    /\ Top.key \notin InjectTypes

\* resolve_as_any of an absent key ends as the claim says: the caller gets
\* Err(TypeNotRegistered), registry and tracked set are as before the call
EndsNotRegistered ==
    /\ stack' = Below
    /\ Handed'.tag = "Err"
    /\ Handed'.msg = "Type not registered"
    /\ resolvers' = resolvers
    /\ tracked' = tracked \ {Top.key}

\* C9 (as claimed): every request for a key that has no entry and is not
\* auto-resolvable is answered with Err(TypeNotRegistered), an ordinary
\* result, with registry and tracked set left as they were.
C9_AbsentKeyNotRegistered ==
    [][/\ \A q \in NextInject :
              ~has(resolvers, q) /\ q \notin InjectTypes =>
                  /\ ret'.tag = "None"
                  /\ stack'[Len(stack')] = Frame("get", q, "dispatch")
       /\ DispatchesAbsent => EndsNotRegistered
      ]_vars

\* C9 (amended): as claimed, for a key that is not being resolved on the
\* active chain (not the key of a builder whose constructor is running).
C9_AbsentUntrackedKeyNotRegistered ==
    [][/\ \A q \in NextInject :
              /\ ~has(resolvers, q)
              /\ q \notin InjectTypes
              /\ q \notin tracked
              => /\ ret'.tag = "None"
                 /\ stack'[Len(stack')] = Frame("get", q, "dispatch")
                 /\ tracked' = tracked \cup {q}
       /\ DispatchesAbsent => EndsNotRegistered
      ]_vars

\* C9 witness: a constructor has got Err(TypeNotRegistered) back from its
\* request for a key without entry, and goes on running
C9_Witness ==
    /\ stack # <<>>
    /\ Top.fn \in {"closure", "resolve"}
    /\ ret.tag = "Err"
    /\ ret.msg = "Type not registered"
    /\ ret.fn = "get"
    /\ ret.key \notin InjectTypes
    /\ ~has(resolvers, ret.key)
    /\ ret.key \notin tracked

\* types with a self-describing constructor that were never registered
Unregistered == InjectTypes \ DOMAIN firstReg

\* C10 (as claimed): when the constructor of an unregistered type has
\* returned its value to inject, the value is stored as the Shared entry
\* of the type; and once the type has an entry its constructor is not
\* invoked again.
C10_FirstInjectStores ==
    [][/\ Resumed("inject", "construct") /\ ret.tag = "Ok"
          /\ Top.key \in Unregistered
          => /\ has(resolvers', Top.key)
             /\ resolvers'[Top.key] = Shared(ret.val)
       /\ \A k \in Unregistered :
              has(resolvers, k) => constructed'[k] = constructed[k]
      ]_vars

\* C11 (as claimed): when the constructor of Z has returned its value to
\* inject of Rc<Z>, a handle to it is stored as the Shared entry of Rc<Z>;
\* once the key has its entry, Z is not constructed again and the entry
\* does not change; every inject that yields a handle yields the stored
\* one; and when no call is in progress the strong count of the instance
\* is the number of handles the application holds plus one.
C11_RcConstructedOnce ==
    [][\A k \in RcTypes :
          /\ Resumed("inject", "construct") /\ Top.key = k /\ ret.tag = "Ok"
             => /\ has(resolvers', k)
                /\ resolvers'[k] = Shared(RcNew(ret.val))
          /\ has(resolvers, k)
             => /\ constructed'[k] = constructed[k]
                /\ has(resolvers', k)
                /\ resolvers'[k] = resolvers[k]
          /\ \A r \in Delivered(k)' :
                 r.tag = "Ok" => has(resolvers', k) /\ r.val = resolvers'[k].val
          /\ stack' = <<>> /\ has(resolvers', k)
             => strong'[k] = held'[k] + 1
      ]_vars

\* types with a self-describing constructor whose key was registered with
\* register or register_builder
RegisteredInjectTypes ==
    {k \in InjectTypes \cap DOMAIN firstReg :
        firstReg[k].kind \in {"Shared", "Builder"}}

\* C12 (as claimed): the self-describing constructor of a type whose key
\* was registered with register or register_builder is never invoked, and
\* a resolution of the key that yields a value yields the registered item
\* or the item its builder built.
C12_RegisteredNeverSelfConstructed ==
    \A k \in RegisteredInjectTypes :
        /\ constructed[k] = 0
        /\ \A r \in Delivered(k) :
               r.tag = "Ok" =>
                   r.val = IF firstReg[k].kind = "Shared"
                             THEN firstReg[k].val
                             ELSE Item("builder", 1)

\* keys first registered with register_automatic_factory
AutoFactoryKeys ==
    {k \in DOMAIN firstReg : firstReg[k].kind = "Factory" /\ firstReg[k].auto}

\* C13: for a key registered with register_automatic_factory, the type's
\* constructor is invoked exactly when a resolution of the key dispatches,
\* once per resolution; the entry stays the automatic Factory and never
\* becomes Shared; and a resolution that yields a value yields the value
\* of the constructor's latest invocation.
C13_AutoFactoryConstructsAnew ==
    [][\A k \in AutoFactoryKeys :
          /\ constructed'[k] # constructed[k] =>
                 /\ constructed'[k] = constructed[k] + 1
                 /\ Running("get", "dispatch")
                 /\ Top.key = k
          /\ Running("get", "dispatch") /\ Top.key = k =>
                 constructed'[k] = constructed[k] + 1
          /\ has(resolvers', k)
          /\ resolvers'[k] = Factory(TRUE)
          /\ \A r \in Delivered(k)' :
                 r.tag = "Ok" => r.val = Item("resolve", constructed'[k])
      ]_vars

\* C13 witness: the third resolution of an automatic factory key has
\* returned the value of the third invocation of the constructor
C13_Witness ==
    /\ stack = <<>>
    /\ nResolves = 3
    /\ outcome.tag = "Ok"
    /\ outcome.key \in AutoFactoryKeys
    /\ constructed[outcome.key] = 3
    /\ outcome.val = Item("resolve", 3)
    /\ resolvers[outcome.key].kind = "Factory"

\* a factory is running on the chain: call_factory has called it and it
\* has not returned
FactoryRunning == \E i \in 1..Len(stack) :
                      stack[i].fn = "get" /\ stack[i].pc = "factory"

\* C14 (as claimed): when a resolution made while a factory runs reaches
\* the entry of a builder that has not been built, the builder is
\* consumed and called, without a panic; and when that builder has
\* returned its item, the entry of its key becomes the Shared item.
C14_FactoryResolvesBuilder ==
    [][/\ FactoryRunning /\ Running("get", "dispatch")
          /\ get_resolver_type(resolvers, Top.key) = "Builder"
          => /\ ret'.tag # "Panic"
             /\ invoked'[Top.key] = invoked[Top.key] + 1
       /\ FactoryRunning /\ Resumed("get", "builder") /\ ret.tag = "Ok"
          /\ ~has(resolvers, Top.key)
          => /\ has(resolvers', Top.key)
             /\ resolvers'[Top.key] = Shared(ret.val)
      ]_vars

\* C15 (as claimed): when a self-describing constructor has returned a
\* failure, to inject of an unregistered type or to the automatic factory
\* of a registered one, the failure is passed on as an error result: the
\* step raises no panic.
C15_ConstructorFailureIsErr ==
    [][(\/ Resumed("inject", "construct")
        \/ Resumed("auto_factory", "unwrap")) /\ ret.tag = "Err"
       => /\ ret'.tag # "Panic"
          /\ outcome'.tag # "Panic"
          /\ \/ ret' = From(Err(ret.msg), Top.fn, Top.key)
             \/ outcome' = From(Err(ret.msg), Top.fn, Top.key)
      ]_vars

\* the frames of self-describing constructors on the chain
Constructing == {i \in 1..Len(stack) : stack[i].fn = "resolve"}

\* C16: a self-describing constructor that has requested n fields has
\* requested its first n fields, and the request it waits for is the one
\* of field n; its next request is for field n + 1; and when a field's
\* inject has failed the constructor returns that failure at once, under
\* the field's name, with no factory invoked, no builder consumed, no constructor started and no
\* entry changed by the step.
C16_FieldsInOrderUntilFailure ==
    [][/\ \A i \in Constructing :
              /\ stack[i].n <= Len(fields[stack[i].key])
              /\ stack[i].pc = "try" =>
                     /\ stack[i].n >= 1
                     /\ i < Len(stack) =>
                            stack[i + 1].key = fields[stack[i].key][stack[i].n]
                     /\ i = Len(stack) /\ ret.tag \in {"Ok", "Err"} =>
                            ret.key = fields[stack[i].key][stack[i].n]
       /\ Running("resolve", "run") /\ Top.n < Len(fields[Top.key])
          => /\ Len(stack') >= Len(stack)
             /\ stack'[Len(stack)].n = Top.n + 1
             /\ stack'[Len(stack)].pc = "try"
       /\ Resumed("resolve", "try") /\ ret.tag = "Err"
          => /\ stack' = Below
             /\ LET failure == From(Err(FieldError(Top.key, Top.n, ret.msg)),
                                     "resolve", Top.key)
                IN  ret' = failure \/ outcome' = failure
             /\ UNCHANGED <<resolvers, invoked, constructed, tracked>>
      ]_vars

\* C16 witness: Z has two fields, the first is not registered and the
\* second is a registered factory; inject of Rc<Z> has returned the
\* failure of the first field and the factory was never invoked
C16_Witness ==
    /\ stack = <<>>
    /\ nResolves = 1
    /\ outcome.tag = "Err"
    /\ outcome.key = "Rc<Z>"
    /\ fields["Rc<Z>"] = <<"i32", "X">>
    /\ ~has(resolvers, "i32")
    /\ has(resolvers, "X")
    /\ resolvers["X"].kind = "Factory"
    /\ invoked["X"] = 0

\* C17: the container leaves the building phase only by becoming frozen
\* and never leaves the frozen phase; on the frozen container nothing is
\* registered; and a key that was never registered gains an entry only
\* when inject has constructed it successfully, and the entry is then
\* the Shared item that was constructed.
C17_FrozenOnceAndForAll ==
    [][/\ phase' # phase => phase = "building" /\ phase' = "frozen"
       /\ phase = "frozen" =>
              /\ firstReg' = firstReg
              /\ \A k \in AllKeys \ DOMAIN firstReg :
                     ~has(resolvers, k) /\ has(resolvers', k) =>
                         /\ Resumed("inject", "construct")
                         /\ Top.key = k
                         /\ ret.tag = "Ok"
                         /\ resolvers'[k] = Shared(Boxed(k, ret.val))
      ]_vars

\* C17 witness: on the frozen container a type that was never registered
\* has the Shared entry its auto-resolution stored
C17_Witness ==
    /\ phase = "frozen"
    /\ stack = <<>>
    /\ \E k \in InjectTypes \ DOMAIN firstReg :
           /\ has(resolvers, k)
           /\ resolvers[k] = Shared(Item("resolve", 1))
           /\ outcome = From(Ok(Item("resolve", 1)), "get", k)

\* a CircularDependency panic is in flight on the chain
CircularInFlight ==
    /\ stack # <<>>
    /\ ret.tag = "Panic"
    /\ ret.msg = "Circular dependency"

\* C18 (as claimed): no resolution of a key starts while the key is on
\* the active chain, and no constructor is handed a value or an error
\* result for a key of the active chain; CircularDependency is raised
\* only for a key on the chain, and only as a panic, never as an error
\* result; and a CircularDependency panic leaves one frame after the
\* other, no frame going on, nothing invoked, constructed or stored, until
\* it has reached the application.
C18_CircularIsFatal ==
    [][/\ Len(stack') = Len(stack) + 1 /\ stack'[Len(stack')].fn = "get"
          => stack'[Len(stack')].key \notin tracked
       /\ stack' # <<>> /\ ret'.tag \in {"Ok", "Err"}
          /\ ret'.fn \in {"get", "inject"}
          => ret'.key \notin tracked'
       /\ \A r \in {ret', outcome'} :
              r.msg = "Circular dependency" =>
                  /\ r.tag = "Panic"
                  /\ r.fn = "get"
                  /\ r \notin {ret, outcome} => r.key \in tracked
       /\ CircularInFlight =>
              /\ stack' = Below
              /\ IF Below = <<>>
                   THEN outcome' = ret /\ ret' = NoResult
                   ELSE ret' = ret
              /\ UNCHANGED <<resolvers, invoked, constructed>>
      ]_vars

\* C19 (as claimed): when an inject made while a factory runs has
\* constructed a type that has no entry, the value is stored as the
\* Shared entry of the type, without a panic.
C19_FactoryInjectsUnregistered ==
    [][FactoryRunning /\ Resumed("inject", "construct") /\ ret.tag = "Ok"
       /\ ~has(resolvers, Top.key)
       => /\ ret'.tag # "Panic"
          /\ has(resolvers', Top.key)
          /\ resolvers'[Top.key] = Shared(Boxed(Top.key, ret.val))
      ]_vars

\* C20 (as claimed): a resolution the application starts for a type with
\* a self-describing constructor and no entry starts that constructor,
\* whether it is started with resolve or with inject; and no such
\* resolution ends with TypeNotRegistered for the type itself.
C20_ResolveFallsBackLikeInject ==
    [][/\ \A k \in InjectTypes :
              stack = <<>> /\ stack' # <<>> /\ stack'[1].key = k
              /\ ~has(resolvers, k)
              => /\ stack'[1] = Frame("inject", k, "construct")
                 /\ constructed'[k] = constructed[k] + 1
       /\ \A k \in InjectTypes :
              stack' = <<>> =>
                  outcome' # From(Err("Type not registered"), "get", k)
      ]_vars

\* the kind of the entry of k, "None" when k has no entry
KindOf(res, k) == IF has(res, k) THEN res[k].kind ELSE "None"

\* C21 (as claimed): on the frozen container, whenever no resolution is
\* in progress every registered key has an entry, of the registered kind
\* or Shared where a builder was registered; and no step changes the kind
\* of a registered key's entry except a builder's to Shared.
C21_EntriesKeepTheirKind ==
    [][phase' = "frozen" =>
          \A k \in DOMAIN firstReg' :
              /\ stack' = <<>> =>
                     \/ KindOf(resolvers', k) = firstReg'[k].kind
                     \/ /\ firstReg'[k].kind = "Builder"
                        /\ KindOf(resolvers', k) = "Shared"
              /\ stack = <<>> /\ stack' = <<>> /\ phase = "frozen" =>
                     \/ KindOf(resolvers', k) = KindOf(resolvers, k)
                     \/ /\ KindOf(resolvers, k) = "Builder"
                        /\ KindOf(resolvers', k) = "Shared"
      ]_vars

\* the keys of the builders under construction: consume_builder has
\* called the builder and the builder has not returned
UnderConstruction ==
    {stack[i].key : i \in {j \in 1..Len(stack) :
                              stack[j].fn = "get" /\ stack[j].pc = "builder"}}

\* C22 (as claimed): the key of a builder under construction has no
\* entry; and when the builder has returned its item, consume_builder
\* stores it as the Shared entry and does not return the duplicate
\* registration error.
C22_PromotionSucceeds ==
    [][/\ \A k \in UnderConstruction : ~has(resolvers, k)
       /\ Resumed("get", "builder") /\ ret.tag = "Ok"
          => /\ ret'.tag # "Panic"
             /\ \A r \in {ret', outcome'} : r.msg # "Container already has"
             /\ has(resolvers', Top.key)
             /\ resolvers'[Top.key] = Shared(ret.val)
      ]_vars

\* the panics of the container's defensive branches and of its lookups of
\* an entry that is assumed to exist
DefensiveFailures ==
    {"not registered as factory", "not registered as builder",
     "not registered as shared dependency",
     "called Option::unwrap() on a None value"}

\* C23: no call ends in one of the defensive failures; a key dispatched
\* as Shared has a Shared entry to read, and so has the key of a builder
\* once its item has been stored.
C23_DefensiveFailuresUnreachable ==
    [][/\ \A r \in {ret', outcome'} : r.msg \notin DefensiveFailures
       /\ Running("get", "dispatch")
          /\ get_resolver_type(resolvers, Top.key) = "Shared"
          => get_shared(resolvers, Top.key).tag = "Ok"
       /\ Resumed("get", "builder") /\ ret.tag = "Ok" /\ ret'.tag # "Panic"
          => get_shared(resolvers', Top.key) = Ok(ret.val)
      ]_vars

\* C23 witness: the builder of a key has been consumed and the read of
\* the Shared entry that follows has returned the builder's item
C23_Witness ==
    /\ stack = <<>>
    /\ \E k \in DOMAIN firstReg :
           /\ firstReg[k].kind = "Builder"
           /\ outcome = From(Ok(Item("builder", 1)), "get", k)
           /\ get_resolver_type(resolvers, k) = "Shared"

\* the keys whose factory is running: call_factory has called it and it
\* has not returned
FactoriesRunning ==
    {stack[i].key : i \in {j \in 1..Len(stack) :
                              stack[j].fn = "get" /\ stack[j].pc = "factory"}}

\* C24 (as claimed): whenever a constructor for a key is invoked (the
\* registered factory or builder, or the type's self-describing
\* constructor) the key is tracked; a factory is invoked only while no
\* invocation of the same factory is running; and a resolution of a key
\* whose factory is running ends at once with a CircularDependency panic.
C24_TrackedBeforeConstructed ==
    [][\A k \in Keys :
          /\ invoked'[k] # invoked[k] \/ constructed'[k] # constructed[k]
             => k \in tracked /\ k \in tracked'
          /\ invoked'[k] # invoked[k] \/ constructed'[k] # constructed[k]
             => k \notin FactoriesRunning
          /\ k \in FactoriesRunning /\ k \in FactoriesRunning'
             /\ Len(stack') > Len(stack)
             => stack'[Len(stack')].key # k
      ]_vars

\* the keys the constructors of k request: the dependencies of its closure
\* and the fields of its self-describing constructor
Requests(k) ==
    {deps[k][i] : i \in 1..Len(deps[k])}
        \cup {fields[k][i] : i \in 1..Len(fields[k])}

\* the keys requested on behalf of k, through at most n constructors
RECURSIVE RequestsWithin(_, _)
RequestsWithin(k, n) ==
    IF n = 0 THEN {}
    ELSE Requests(k) \cup UNION {RequestsWithin(j, n - 1) : j \in Requests(k)}

\* no key is requested on behalf of itself
Acyclic ==
    \A k \in DOMAIN deps : k \notin RequestsWithin(k, Cardinality(DOMAIN deps))

\* C25: a CircularDependency panic is raised only for a key that is, at
\* that moment, the key of a resolution in progress on the chain; and
\* when no key is requested on behalf of itself, no CircularDependency
\* panic is ever raised.
C25_CircularOnlyOnActiveChain ==
    [][\A r \in {ret', outcome'} :
          r.msg = "Circular dependency" =>
              /\ r \notin {ret, outcome} =>
                     /\ r.key \in tracked
                     /\ \E i \in 1..Len(stack) :
                            stack[i].fn = "get" /\ stack[i].key = r.key
              /\ ~Acyclic
      ]_vars

\* C25 witness: a diamond.  Z has the fields i32 and X, the factories of
\* i32 and X both request Y, and inject of Rc<Z> has returned the handle
\* after the factory of Y has run twice
C25_Witness ==
    /\ stack = <<>>
    /\ nResolves = 1
    /\ fields["Rc<Z>"] = <<"i32", "X">>
    /\ deps["i32"] = <<"Y">>
    /\ deps["X"] = <<"Y">>
    /\ Acyclic
    /\ invoked = [k \in AllKeys |-> IF k = "Y" THEN 2
                                    ELSE IF k \in RcTypes THEN 0 ELSE 1]
    /\ outcome.tag = "Ok"
    /\ outcome.key = "Rc<Z>"

\* the resolutions in progress: the calls of get and inject on the chain
ActiveResolutions ==
    {i \in 1..Len(stack) : stack[i].fn \in {"get", "inject"}}

\* C26 (as claimed): the number of resolutions nested in one another never
\* exceeds the number of distinct keys.
C26_DepthBoundedByKeys == Cardinality(ActiveResolutions) <= Cardinality(AllKeys)

\* C27: when the self-describing constructor has returned an error to
\* inject, inject returns the error and the registry is left as it is,
\* without an entry for the key; a request of the application for a
\* handle type that has no entry invokes the constructor; and a Shared
\* entry, once stored, stays as it is.
C27_FailedAutoResolutionStoresNothing ==
    [][/\ Resumed("inject", "construct") /\ ret.tag = "Err"
          => /\ resolvers' = resolvers
             /\ ~has(resolvers', Top.key)
             /\ stack' = Below
             /\ LET failure == From(Err(ret.msg), "inject", Top.key)
                IN  ret' = failure \/ outcome' = failure
       /\ \A k \in RcTypes :
              stack = <<>> /\ stack' # <<>> /\ stack'[1].key = k
              /\ ~has(resolvers, k)
              => constructed'[k] = constructed[k] + 1
       /\ \A k \in AllKeys :
              KindOf(resolvers, k) = "Shared" =>
                  has(resolvers', k) /\ resolvers'[k] = resolvers[k]
      ]_vars

\* C27 witness: Z has the fields X and i32; X was auto-resolved and
\* stored, i32 is not registered; the second inject of Rc<Z> has invoked
\* the constructor again and failed again, and Rc<Z> has no entry
C27_Witness ==
    /\ stack = <<>>
    /\ fields["Rc<Z>"] = <<"X", "i32">>
    /\ outcome.tag = "Err"
    /\ outcome.fn = "inject"
    /\ outcome.key = "Rc<Z>"
    /\ constructed["Rc<Z>"] = 2
    /\ ~has(resolvers, "Rc<Z>")
    /\ ~has(resolvers, "i32")
    /\ KindOf(resolvers, "X") = "Shared"
    /\ resolvers["X"].val = Item("resolve", 1)
    /\ constructed["X"] = 1

\* the registry is empty at build and Y's constructor injects X
ChainedAutoResolution ==
    /\ phase = "frozen"
    /\ firstReg = EmptyMap
    /\ fields["Y"] = <<"X">>

\* C28: with an empty registry and a Y whose constructor injects X, the
\* constructor of Y does not fail; when it has returned, X has its Shared
\* entry and inject stores the Shared entry of Y and goes on to read it;
\* Y never has an entry while X has none; and an inject of Y by the
\* application ends with a value.
C28_AutoResolutionChains ==
    [][ChainedAutoResolution =>
          /\ Resumed("inject", "construct") /\ Top.key = "Y" =>
                 /\ ret.tag = "Ok"
                 /\ KindOf(resolvers, "X") = "Shared"
                 /\ ~has(resolvers, "Y") =>
                        /\ resolvers' = MapInsert(resolvers, "Y", Shared(ret.val))
                        /\ stack' = Append(Below, Frame("get", "Y", "dispatch"))
          /\ has(resolvers', "Y") => has(resolvers', "X")
          /\ stack # <<>> /\ stack[1].fn = "inject" /\ stack[1].key = "Y"
             /\ stack' = <<>>
             => /\ outcome'.tag = "Ok"
                /\ KindOf(resolvers', "X") = "Shared"
                /\ KindOf(resolvers', "Y") = "Shared"
      ]_vars

\* C28 witness: starting from the empty registry, the first inject of Y
\* has returned Y, and X and Y both have their Shared entries
C28_Witness ==
    /\ ChainedAutoResolution
    /\ stack = <<>>
    /\ nResolves = 1
    /\ outcome = From(Ok(Item("resolve", 1)), "get", "Y")
    /\ resolvers = [k \in {"X", "Y"} |-> Shared(Item("resolve", 1))]

\* has() has just answered the application
Answered == outcome'.fn = "has" /\ outcome' # outcome

\* C29: has() answers true for a key exactly when the key has an entry,
\* which on the builder is exactly when a registration of the key has
\* succeeded; it changes nothing but the answer the application holds;
\* and build hands the registry over as it is, so the container has the
\* keys the builder had.
C29_HasIsPure ==
    [][/\ Answered =>
              /\ outcome'.val = Answer(outcome'.key \in DOMAIN resolvers)
              /\ phase = "building" =>
                     outcome'.val = Answer(outcome'.key \in DOMAIN firstReg)
              /\ UNCHANGED <<phase, resolvers, tracked, stack, ret, borrows,
                             cells, firstReg, invoked, constructed>>
       /\ phase = "building" /\ phase' = "frozen" =>
              /\ resolvers' = resolvers
              /\ tracked' = {}
              /\ \A k \in Keys : has(resolvers', k) <=> k \in DOMAIN firstReg
       /\ phase' = "building" =>
              \A k \in Keys :
                  /\ has(resolvers', k) <=> k \in DOMAIN firstReg'
                  /\ has(resolvers', k) /\ ~has(resolvers, k) =>
                         outcome'.tag = "Ok" /\ outcome'.key = k
      ]_vars

\* C29 witness: right after build, has() on the container has answered
\* true for a key that was registered on the builder
C29_Witness ==
    /\ phase = "frozen"
    /\ nResolves = 0
    /\ outcome.fn = "has"
    /\ outcome.key \in DOMAIN firstReg
    /\ outcome.val = Answer(TRUE)
    /\ has(resolvers, outcome.key)

\* C30 (as claimed): the key of a builder under construction is tracked
\* and has no entry; and it gains its entry only in the step in which
\* consume_builder, the builder having returned, stores the Shared item.
C30_NoEntryWhileBuilding ==
    [][\A k \in UnderConstruction :
          /\ k \in tracked
          /\ ~has(resolvers, k)
          /\ has(resolvers', k) =>
                 /\ Resumed("get", "builder")
                 /\ Top.key = k
                 /\ resolvers'[k] = Shared(ret.val)
      ]_vars


====
